---------------------------- MODULE Spec2Model ----------------------------
(***************************************************************************)
(* slidie-ttyd-run / slidie-ttyd-shell: command-line parsing, generation   *)
(* of the small Python script, launching it locally or through ssh, the    *)
(* script's own execution, and the propagation of the exit status.         *)
(*                                                                         *)
(* Text is modelled as a sequence of one-character strings, so that repr,  *)
(* shlex.quote, the remote shell's word splitting and the interpreter's    *)
(* reading of literals are computed character by character.                *)
(***************************************************************************)
EXTENDS Integers, Sequences, FiniteSets, TLC

(* Characters with a special role in Python literals and POSIX shells. *)
SQ == "'"
DQ == "\""
BS == "\\"
NL == "\n"
SP == " "

(* An optional value (None or a value): the empty sequence, or the value
   alone in a sequence. *)
None == <<>>
Some(v) == <<v>>

(***************************************************************************)
(* Generic text helpers.                                                   *)
(***************************************************************************)
Chars(s) == {s[i] : i \in DOMAIN s}

(* "".join(ss), by halving so that long texts do not nest deeply *)
RECURSIVE ConcatRange(_, _, _)
ConcatRange(ss, lo, hi) ==
    IF lo > hi THEN <<>>
    ELSE IF lo = hi THEN ss[lo]
    ELSE LET mid == (lo + hi) \div 2
         IN  ConcatRange(ss, lo, mid) \o ConcatRange(ss, mid + 1, hi)

Concat(ss) == ConcatRange(ss, 1, Len(ss))

(* sep.join(ss) *)
Join(sep, ss) ==
    Concat([i \in DOMAIN ss |-> IF i = 1 THEN ss[i] ELSE sep \o ss[i]])

(* text.startswith(piece, i - 1), with i counted from 1 *)
StartsAt(text, i, piece) ==
    /\ i + Len(piece) - 1 <= Len(text)
    /\ SubSeq(text, i, i + Len(piece) - 1) = piece

(* str.find(c) + 1: the first position of character c, 0 when absent *)
IndexOf(s, c) ==
    IF c \in Chars(s) THEN CHOOSE i \in DOMAIN s : s[i] = c /\ \A j \in 1..(i-1) : s[j] # c
    ELSE 0

(***************************************************************************)
(* The script templates of script_generators.py after dedent().strip(),    *)
(* cut at the three interpolated values.                                   *)
(***************************************************************************)
RunPart1 ==
    <<"i","m","p","o","r","t",SP,"o","s",",",SP,"s","y","s",",",SP,"s","u","b","p","r","o","c","e","s","s",NL>>
    \o <<"s","y","s",".","e","x","i","t","(",NL>>
    \o <<SP,SP,SP,SP,"s","u","b","p","r","o","c","e","s","s",".","r","u","n","(",NL>>
    \o <<SP,SP,SP,SP,SP,SP,SP,SP>>
RunPart2 ==
    <<",",NL>>
    \o <<SP,SP,SP,SP,SP,SP,SP,SP,"c","w","d","=">>
RunPart3 ==
    <<",",NL>>
    \o <<SP,SP,SP,SP,SP,SP,SP,SP,"e","n","v","=","d","i","c","t","(","o","s",".","e","n","v","i","r","o","n",",",SP,"*","*">>
RunPart4 ==
    <<")",",",NL>>
    \o <<SP,SP,SP,SP,")",".","r","e","t","u","r","n","c","o","d","e",NL>>
    \o <<")">>
ShellPart1 ==
    <<"i","m","p","o","r","t",SP,"o","s",",",SP,"s","y","s",",",SP,"s","u","b","p","r","o","c","e","s","s",",",SP,"t","e","m","p","f","i","l","e",NL>>
    \o <<"f","r","o","m",SP,"p","a","t","h","l","i","b",SP,"i","m","p","o","r","t",SP,"P","a","t","h",NL>>
    \o <<"w","i","t","h",SP,"t","e","m","p","f","i","l","e",".","T","e","m","p","o","r","a","r","y","D","i","r","e","c","t","o","r","y","(",")",SP,"a","s",SP,"d",":",NL>>
    \o <<SP,SP,SP,SP,"h",SP,"=",SP,"P","a","t","h","(","d",")",SP,"/",SP,DQ,"h","i","s","t","o","r","y",DQ,NL>>
    \o <<SP,SP,SP,SP,"h",".","w","r","i","t","e","_","t","e","x","t","(">>
ShellPart2 ==
    <<")",NL>>
    \o <<SP,SP,SP,SP,"e","n","v",SP,"=",SP,"d","i","c","t","(","o","s",".","e","n","v","i","r","o","n",",",SP,"H","I","S","T","F","I","L","E","=","h",",",SP,"*","*">>
ShellPart3 ==
    <<")",NL>>
    \o <<SP,SP,SP,SP,"s","y","s",".","e","x","i","t","(",NL>>
    \o <<SP,SP,SP,SP,SP,SP,SP,SP,"s","u","b","p","r","o","c","e","s","s",".","r","u","n","(",NL>>
    \o <<SP,SP,SP,SP,SP,SP,SP,SP,SP,SP,SP,SP,"e","n","v",".","g","e","t","(",DQ,"S","H","E","L","L",DQ,",",SP,DQ,"b","a","s","h",DQ,")",",",NL>>
    \o <<SP,SP,SP,SP,SP,SP,SP,SP,SP,SP,SP,SP,"e","n","v","=","e","n","v",",",NL>>
    \o <<SP,SP,SP,SP,SP,SP,SP,SP,SP,SP,SP,SP,"c","w","d","=">>
ShellPart4 ==
    <<",",NL>>
    \o <<SP,SP,SP,SP,SP,SP,SP,SP,")",".","r","e","t","u","r","n","c","o","d","e",NL>>
    \o <<SP,SP,SP,SP,")">>

(***************************************************************************)
(* Python's repr of the values interpolated with !r.  Of the characters    *)
(* repr writes as an escape, the texts here hold the backslash, the quotes *)
(* and the newline.                                                        *)
(***************************************************************************)
ReprQuote(s) == IF SQ \in Chars(s) /\ DQ \notin Chars(s) THEN DQ ELSE SQ

ReprChar(c, q) ==
    IF c = BS THEN <<BS, BS>>
    ELSE IF c = q THEN <<BS, c>>
    ELSE IF c = NL THEN <<BS, "n">>
    ELSE <<c>>

ReprStr(s) ==
    LET q == ReprQuote(s)
    IN  <<q>> \o Concat([i \in DOMAIN s |-> ReprChar(s[i], q)]) \o <<q>>

ReprOptStr(o) == IF o = None THEN <<"N","o","n","e">> ELSE ReprStr(o[1])

ReprList(l) ==
    <<"[">> \o Join(<<",", SP>>, [i \in DOMAIN l |-> ReprStr(l[i])]) \o <<"]">>

(* a dict is a sequence of <<key, value>> pairs with distinct keys, in
   insertion order *)
ReprDict(d) ==
    <<"{">>
    \o Join(<<",", SP>>,
            [i \in DOMAIN d |-> ReprStr(d[i][1]) \o <<":", SP>> \o ReprStr(d[i][2])])
    \o <<"}">>

(***************************************************************************)
(* shlex.quote, as run_script applies it to the script for the remote      *)
(* shell.                                                                  *)
(***************************************************************************)
Letters ==
    {"a","b","c","d","e","f","g","h","i","j","k","l","m","n","o","p","q","r","s","t",
     "u","v","w","x","y","z","A","B","C","D","E","F","G","H","I","J","K","L","M","N",
     "O","P","Q","R","S","T","U","V","W","X","Y","Z"}
Digits == {"0","1","2","3","4","5","6","7","8","9"}

(* the complement of shlex's _find_unsafe pattern [^\w@%+=:,./-] *)
ShlexSafe == Letters \cup Digits \cup {"_","@","%","+","=",":",",",".","/","-"}

(* a quote that does not escape the single quotes inside *)
ShlexQuoteNoEscape(s) ==
    IF s = <<>> THEN <<SQ, SQ>>
    ELSE IF Chars(s) \subseteq ShlexSafe THEN s
    ELSE <<SQ>> \o s \o <<SQ>>
(* shlex.quote *)
ShlexQuote(s) ==
    IF s = <<>> THEN <<SQ, SQ>>
    ELSE IF Chars(s) \subseteq ShlexSafe THEN s
    ELSE <<SQ>>
         \o Concat([i \in DOMAIN s |->
                       IF s[i] = SQ THEN <<SQ, DQ, SQ, DQ, SQ>> ELSE <<s[i]>>])
         \o <<SQ>>

(***************************************************************************)
(* One layer of POSIX shell word splitting, as the remote login shell      *)
(* applies it to the command line ssh sends (the words joined by spaces).  *)
(* mode: "n" unquoted, "s" inside '...', "d" inside "...".                 *)
(* An unquoted operator or expansion character becomes a word of its own,  *)
(* so a text that reaches the shell unquoted never comes back as one word. *)
(* The backquote, which none of the texts here holds, is left out.         *)
(***************************************************************************)
ShellBlank == {SP, "\t"}
ShellMeta == {NL, "|", "&", ";", "<", ">", "(", ")", "$", "*", "?", "[", "#", "{", "}"}
ShellDqEscapable == {DQ, BS, "$", NL}

EndWord(words, cur, inWord) == IF inWord THEN Append(words, cur) ELSE words

(* the scanner's state before any character is read *)
ShellStart == [i |-> 1, mode |-> "n", cur |-> <<>>, inWord |-> FALSE, words |-> <<>>, ok |-> TRUE]

(* one step of the scanner: reads t[st.i] (and the character an escape covers) *)
ShellStep(t, st) ==
    LET c == t[st.i]
        last == st.i = Len(t)
        Fail == [st EXCEPT !.ok = FALSE]
    IN
    CASE st.mode = "s" ->
           IF c = SQ THEN [st EXCEPT !.i = @ + 1, !.mode = "n"]
           ELSE [st EXCEPT !.i = @ + 1, !.cur = Append(@, c)]
      [] st.mode = "d" ->
           IF c = DQ THEN [st EXCEPT !.i = @ + 1, !.mode = "n"]
           ELSE IF c = BS /\ ~last /\ t[st.i + 1] \in ShellDqEscapable
           THEN [st EXCEPT !.i = @ + 2,
                           !.cur = IF t[st.i + 1] = NL THEN @ ELSE Append(@, t[st.i + 1])]
           ELSE IF c = "$" THEN Fail
           ELSE [st EXCEPT !.i = @ + 1, !.cur = Append(@, c)]
      [] OTHER ->
           IF c \in ShellBlank
           THEN [st EXCEPT !.i = @ + 1, !.cur = <<>>, !.inWord = FALSE,
                           !.words = EndWord(@, st.cur, st.inWord)]
           ELSE IF c = SQ THEN [st EXCEPT !.i = @ + 1, !.mode = "s", !.inWord = TRUE]
           ELSE IF c = DQ THEN [st EXCEPT !.i = @ + 1, !.mode = "d", !.inWord = TRUE]
           ELSE IF c = BS
           THEN IF last THEN Fail
                ELSE IF t[st.i + 1] = NL THEN [st EXCEPT !.i = @ + 2]
                ELSE [st EXCEPT !.i = @ + 2, !.cur = Append(@, t[st.i + 1]), !.inWord = TRUE]
           ELSE IF c \in ShellMeta
           THEN [st EXCEPT !.i = @ + 1, !.cur = <<>>, !.inWord = FALSE,
                           !.words = Append(EndWord(@, st.cur, st.inWord), <<c>>)]
           ELSE [st EXCEPT !.i = @ + 1, !.cur = Append(@, c), !.inWord = TRUE]

(* the scanner run up to position stop *)
RECURSIVE ShellScanTo(_, _, _)
ShellScanTo(t, st, stop) ==
    IF st.i > stop \/ ~st.ok THEN st ELSE ShellScanTo(t, ShellStep(t, st), stop)

(* the scanner run over the whole text, a stretch of 24 characters at a time
   (the stretches only keep the evaluation shallow) *)
RECURSIVE ShellScan(_, _)
ShellScan(t, st) ==
    IF st.i > Len(t) \/ ~st.ok THEN st
    ELSE ShellScan(t, ShellScanTo(t, st, IF st.i + 23 < Len(t) THEN st.i + 23 ELSE Len(t)))

(* the words, or ok = FALSE for a syntax error (an unterminated quote, an
   expansion) *)
ShellSplit(t) ==
    LET st == ShellScan(t, ShellStart)
    IN  [ok |-> st.ok /\ st.mode = "n", words |-> EndWord(st.words, st.cur, st.inWord)]

(***************************************************************************)
(* The interpreter reading the interpolated literals back: a string        *)
(* literal, None, a list of strings, a dict of strings.  Each reader       *)
(* returns [ok, val, next]: ok is FALSE for a SyntaxError, next is the     *)
(* position after the literal.                                             *)
(***************************************************************************)
PyFail == [ok |-> FALSE, val |-> None, next |-> 0]

PyUnescape(d) ==
    IF d = "n" THEN <<NL>>
    ELSE IF d \in {BS, SQ, DQ} THEN <<d>>
    ELSE <<BS, d>>

RECURSIVE PyStrScan(_, _, _, _)
PyStrScan(t, j, q, acc) ==
    IF j > Len(t) \/ t[j] = NL THEN PyFail
    ELSE IF t[j] = q THEN [ok |-> TRUE, val |-> acc, next |-> j + 1]
    ELSE IF t[j] = BS
    THEN IF j = Len(t) THEN PyFail
         ELSE PyStrScan(t, j + 2, q, acc \o PyUnescape(t[j + 1]))
    ELSE PyStrScan(t, j + 1, q, Append(acc, t[j]))

PyStrAt(t, i) ==
    IF i <= Len(t) /\ t[i] \in {SQ, DQ} THEN PyStrScan(t, i + 1, t[i], <<>>) ELSE PyFail

PyOptStrAt(t, i) ==
    IF StartsAt(t, i, <<"N","o","n","e">>)
    THEN [ok |-> TRUE, val |-> None, next |-> i + 4]
    ELSE LET s == PyStrAt(t, i) IN [s EXCEPT !.val = Some(@)]

RECURSIVE PyListItems(_, _, _)
PyListItems(t, j, acc) ==
    LET s == PyStrAt(t, j) IN
    IF ~s.ok THEN PyFail
    ELSE IF StartsAt(t, s.next, <<",", SP>>)
    THEN PyListItems(t, s.next + 2, Append(acc, s.val))
    ELSE IF StartsAt(t, s.next, <<"]">>)
    THEN [ok |-> TRUE, val |-> Append(acc, s.val), next |-> s.next + 1]
    ELSE PyFail

PyListAt(t, i) ==
    IF StartsAt(t, i, <<"[", "]">>) THEN [ok |-> TRUE, val |-> <<>>, next |-> i + 2]
    ELSE IF StartsAt(t, i, <<"[">>) THEN PyListItems(t, i + 1, <<>>)
    ELSE PyFail

(* the keys of a dict held as a sequence of <<key, value>> pairs *)
Keys(d) == {d[i][1] : i \in DOMAIN d}

(* d[k] = v on such a dict: an existing key keeps its place *)
DictSet(d, k, v) ==
    IF k \in Keys(d)
    THEN [i \in DOMAIN d |-> IF d[i][1] = k THEN <<k, v>> ELSE d[i]]
    ELSE Append(d, <<k, v>>)

RECURSIVE PyDictItems(_, _, _)
PyDictItems(t, j, acc) ==
    LET k == PyStrAt(t, j) IN
    IF ~k.ok \/ ~StartsAt(t, k.next, <<":", SP>>) THEN PyFail
    ELSE LET v == PyStrAt(t, k.next + 2) IN
         IF ~v.ok THEN PyFail
         ELSE IF StartsAt(t, v.next, <<",", SP>>)
         THEN PyDictItems(t, v.next + 2, DictSet(acc, k.val, v.val))
         ELSE IF StartsAt(t, v.next, <<"}">>)
         THEN [ok |-> TRUE, val |-> DictSet(acc, k.val, v.val), next |-> v.next + 1]
         ELSE PyFail

PyDictAt(t, i) ==
    IF StartsAt(t, i, <<"{", "}">>) THEN [ok |-> TRUE, val |-> <<>>, next |-> i + 2]
    ELSE IF StartsAt(t, i, <<"{">>) THEN PyDictItems(t, i + 1, <<>>)
    ELSE PyFail

(***************************************************************************)
(* The two script generators.                                              *)
(***************************************************************************)
make_run_command(command, cwd, env) ==
    RunPart1 \o ReprList(command) \o RunPart2 \o ReprOptStr(cwd)
             \o RunPart3 \o ReprDict(env) \o RunPart4

(* "\n".join(history) + "\n" *)
history_lines(history) == Join(<<NL>>, history) \o <<NL>>

make_shell_command(cwd, env, history) ==
    ShellPart1 \o ReprStr(history_lines(history)) \o ShellPart2 \o ReprDict(env)
               \o ShellPart3 \o ReprOptStr(cwd) \o ShellPart4

(***************************************************************************)
(* The interpreter compiling the program text it was given with -c: which  *)
(* of the two scripts it is and the values of its literals, or a           *)
(* SyntaxError (kind "error") for any other text.                          *)
(***************************************************************************)
ScriptError ==
    [kind |-> "error", command |-> <<>>, cwd |-> None, env |-> <<>>, text |-> <<>>]

ReadRunScript(t) ==
    LET c == PyListAt(t, Len(RunPart1) + 1)
        w == IF c.ok /\ StartsAt(t, c.next, RunPart2)
             THEN PyOptStrAt(t, c.next + Len(RunPart2)) ELSE PyFail
        e == IF w.ok /\ StartsAt(t, w.next, RunPart3)
             THEN PyDictAt(t, w.next + Len(RunPart3)) ELSE PyFail
    IN  IF e.ok /\ StartsAt(t, e.next, RunPart4) /\ e.next + Len(RunPart4) = Len(t) + 1
        THEN [kind |-> "run", command |-> c.val, cwd |-> w.val, env |-> e.val,
              text |-> <<>>]
        ELSE ScriptError

ReadShellScript(t) ==
    LET h == PyStrAt(t, Len(ShellPart1) + 1)
        e == IF h.ok /\ StartsAt(t, h.next, ShellPart2)
             THEN PyDictAt(t, h.next + Len(ShellPart2)) ELSE PyFail
        w == IF e.ok /\ StartsAt(t, e.next, ShellPart3)
             THEN PyOptStrAt(t, e.next + Len(ShellPart3)) ELSE PyFail
    IN  IF w.ok /\ StartsAt(t, w.next, ShellPart4) /\ w.next + Len(ShellPart4) = Len(t) + 1
        THEN [kind |-> "shell", command |-> <<>>, cwd |-> w.val, env |-> e.val,
              text |-> h.val]
        ELSE ScriptError

ReadScript(t) ==
    IF StartsAt(t, 1, ShellPart1) THEN ReadShellScript(t)
    ELSE IF StartsAt(t, 1, RunPart1) THEN ReadRunScript(t)
    ELSE ScriptError

(***************************************************************************)
(* runner.py: the command line.                                            *)
(***************************************************************************)
F_cwd == <<"-","-","c","w","d">>
F_env == <<"-","-","e","n","v">>
F_ssh == <<"-","-","s","s","h">>
F_cmd == <<"-","-","c","m","d">>
F_argv == <<"-","-","a","r","g","v">>
F_history == <<"-","-","h","i","s","t","o","r","y">>

(* the option strings each parser registers *)
OptionStrings(entry) ==
    {F_cwd, F_env, F_ssh}
    \cup (IF entry = "run" THEN {F_cmd, F_argv} ELSE {F_history})

(* arg.partition("=") without the separator *)
environment_variable(arg) ==
    LET i == IndexOf(arg, "=")
    IN  IF i = 0 THEN <<arg, <<>>>>
        ELSE <<SubSeq(arg, 1, i - 1), SubSeq(arg, i + 1, Len(arg))>>

(* dict(pairs): a later pair with the same name replaces the value *)
RECURSIVE DictFrom(_, _)
DictFrom(pairs, acc) ==
    IF pairs = <<>> THEN acc
    ELSE DictFrom(Tail(pairs), DictSet(acc, Head(pairs)[1], Head(pairs)[2]))

(* the same, an earlier pair keeping its value *)
RECURSIVE DictFromFirst(_, _)
DictFromFirst(pairs, acc) ==
    IF pairs = <<>> THEN acc
    ELSE DictFromFirst(Tail(pairs),
                       IF Head(pairs)[1] \in Keys(acc) THEN acc
                       ELSE Append(acc, Head(pairs)))
dictFirstWins(pairs) == DictFromFirst(pairs, <<>>)
dict(pairs) == DictFrom(pairs, <<>>)

(***************************************************************************)
(* shlex.split, the type of --cmd: POSIX mode, no comments, no operators.  *)
(***************************************************************************)
ShlexBlank == {SP, "\t", "\r", NL}

ShlexStep(t, st) ==
    LET c == t[st.i]
        last == st.i = Len(t)
    IN
    CASE st.mode = "s" ->
           IF c = SQ THEN [st EXCEPT !.i = @ + 1, !.mode = "n"]
           ELSE [st EXCEPT !.i = @ + 1, !.cur = Append(@, c)]
      [] st.mode = "d" ->
           IF c = DQ THEN [st EXCEPT !.i = @ + 1, !.mode = "n"]
           ELSE IF c = BS
           THEN IF last THEN [st EXCEPT !.ok = FALSE]
                ELSE [st EXCEPT !.i = @ + 2,
                                !.cur = IF t[st.i + 1] \in {DQ, BS}
                                        THEN Append(@, t[st.i + 1])
                                        ELSE @ \o <<BS, t[st.i + 1]>>]
           ELSE [st EXCEPT !.i = @ + 1, !.cur = Append(@, c)]
      [] OTHER ->
           IF c \in ShlexBlank
           THEN [st EXCEPT !.i = @ + 1, !.cur = <<>>, !.inWord = FALSE,
                           !.words = EndWord(@, st.cur, st.inWord)]
           ELSE IF c = SQ THEN [st EXCEPT !.i = @ + 1, !.mode = "s", !.inWord = TRUE]
           ELSE IF c = DQ THEN [st EXCEPT !.i = @ + 1, !.mode = "d", !.inWord = TRUE]
           ELSE IF c = BS
           THEN IF last THEN [st EXCEPT !.ok = FALSE]
                ELSE [st EXCEPT !.i = @ + 2, !.cur = Append(@, t[st.i + 1]), !.inWord = TRUE]
           ELSE [st EXCEPT !.i = @ + 1, !.cur = Append(@, c), !.inWord = TRUE]

RECURSIVE ShlexScan(_, _)
ShlexScan(t, st) ==
    IF st.i > Len(t) \/ ~st.ok THEN st ELSE ShlexScan(t, ShlexStep(t, st))

(* the words, or ok = FALSE where shlex raises ValueError *)
ShlexSplit(t) ==
    LET st == ShlexScan(t, ShellStart)
    IN  [ok |-> st.ok /\ st.mode = "n", words |-> EndWord(st.words, st.cur, st.inWord)]

(***************************************************************************)
(* argparse, as far as these two parsers use it: options that take one     *)
(* argument each, the actions store and append, one required mutually      *)
(* exclusive group.  Any error ends in parser.error: usage on stderr and    *)
(* exit status 2.                                                          *)
(***************************************************************************)
AllDigits(s) == s # <<>> /\ Chars(s) \subseteq Digits

(* argparse's _negative_number_matcher: -\d+ or -\d*\.\d+ *)
IsNegativeNumber(tok) ==
    /\ Len(tok) >= 2
    /\ tok[1] = "-"
    /\ LET r == Tail(tok)
           dot == IndexOf(r, ".")
       IN  \/ AllDigits(r)
           \/ /\ dot > 0
              /\ Chars(SubSeq(r, 1, dot - 1)) \subseteq Digits
              /\ AllDigits(SubSeq(r, dot + 1, Len(r)))

(* argparse's _parse_optional: "O" for a string taken as an option, "A" for
   one that can be the argument of an option *)
ArgClass(entry, tok) ==
    IF tok = <<>> \/ tok[1] # "-" THEN "A"
    ELSE IF tok \in OptionStrings(entry) THEN "O"
    ELSE IF Len(tok) = 1 THEN "A"
    ELSE IF IsNegativeNumber(tok) THEN "A"
    ELSE IF SP \in Chars(tok) THEN "A"
    ELSE "O"

(* the namespace before any option is read; ok = FALSE once parser.error
   has been called *)
EmptyNamespace ==
    [ok |-> TRUE, cwd |-> None, env |-> <<>>, ssh |-> None, argv |-> None,
     history |-> <<>>, seen |-> {}]

UsageError == [EmptyNamespace EXCEPT !.ok = FALSE]

AppendTo(list, v) == IF list = None THEN Some(<<v>>) ELSE Some(Append(list[1], v))

(* add_mutually_exclusive_group: --cmd and --argv conflict with each other *)
(* a plain group, in which nothing conflicts *)
GroupConflictNone(flag, seen) == FALSE
(* the mutually exclusive group *)
GroupConflict(flag, seen) ==
    \/ flag = F_cmd /\ F_argv \in seen
    \/ flag = F_argv /\ F_cmd \in seen

(* required=True: one of the group must have been given *)
GroupMissing(entry, seen) == entry = "run" /\ seen \cap {F_cmd, F_argv} = {}

(* the option's type conversion and action *)
TakeAction(ns, flag, v) ==
    LET seen == [ns EXCEPT !.seen = @ \cup {flag}] IN
    IF GroupConflict(flag, ns.seen) THEN UsageError
    ELSE IF flag = F_cwd THEN [seen EXCEPT !.cwd = Some(v)]
    ELSE IF flag = F_env THEN [seen EXCEPT !.env = Append(@, environment_variable(v))]
    ELSE IF flag = F_ssh THEN [seen EXCEPT !.ssh = AppendTo(@, v)]
    ELSE IF flag = F_argv THEN [seen EXCEPT !.argv = AppendTo(@, v)]
    ELSE IF flag = F_history THEN [seen EXCEPT !.history = Append(@, v)]
    ELSE LET s == ShlexSplit(v)
         IN  IF s.ok THEN [seen EXCEPT !.argv = Some(s.words)] ELSE UsageError

(* the strings from position i on: an option string must be followed by one
   string of class "A"; any other string is an unrecognized argument *)
RECURSIVE ConsumeArgs(_, _, _, _)
ConsumeArgs(entry, toks, i, ns) ==
    IF ~ns.ok \/ i > Len(toks) THEN ns
    ELSE IF toks[i] \notin OptionStrings(entry) THEN UsageError
    ELSE IF i = Len(toks) \/ ArgClass(entry, toks[i + 1]) # "A" THEN UsageError
    ELSE ConsumeArgs(entry, toks, i + 2, TakeAction(ns, toks[i], toks[i + 1]))

parse_args(entry, toks) ==
    LET ns == ConsumeArgs(entry, toks, 1, EmptyNamespace)
    IN  IF ns.ok /\ GroupMissing(entry, ns.seen) THEN UsageError ELSE ns

(***************************************************************************)
(* The calling process and the processes it starts.                        *)
(***************************************************************************)
VARIABLES
    entry,        \* "run" (main_run) or "shell" (main_shell)
    cmdline,      \* sys.argv[1:]
    rcs,          \* the return codes the payload may end with
    pc,           \* the calling process: "main", "parsed", "spawn", "wait", "exited"
    args,         \* the Namespace parse_args returned
    conf,         \* what main handed to the script generator
    script,       \* the generated script
    command,      \* the list run_script gives to subprocess.run
    failure,      \* "none", "usage", "launch" or "transport"
    exitStatus,   \* the calling process's exit status: {} until it has exited
    remote,       \* the words the remote shell splits the ssh command line into
    ip,           \* the interpreter: "none", "start", "ready", "written", "env",
                  \* "child", "reaped", "exited"
    ambient,      \* the interpreter's os.environ
    itext,        \* the program text the interpreter was given
    prog,         \* the script as the interpreter compiled it
    tmpdir,       \* the TemporaryDirectory: "absent", "exists" or "removed"
    histfile,     \* the content of the history file
    ienv,         \* env of the shell script
    child,        \* the payload process: [argv, cwd, env]
    nchildren,    \* how many payload processes were ever started
    childRc,      \* the payload's returncode: {} until it has ended
    ierr,         \* the exception that ended the script, or "none"
    istatus       \* exit status of the process run_script started: {} until it ends

callerVars == <<entry, cmdline, rcs, pc, args, conf, script, command, failure, exitStatus>>
interpVars ==
    <<remote, ip, ambient, itext, prog, tmpdir, histfile, ienv, child, nchildren,
      childRc, ierr, istatus>>
vars == <<callerVars, interpVars>>

(***************************************************************************)
(* Bounds and the values command lines are drawn from.                     *)
(***************************************************************************)
MaxArgs == 2

V_HISTFILE == <<"H","I","S","T","F","I","L","E">>
V_SHELL == <<"S","H","E","L","L">>
V_python == <<"p","y","t","h","o","n">>
V_ssh == <<"s","s","h">>
V_c == <<"-","c">>
V_bash == <<"b","a","s","h">>

Options ==
    {<<F_cwd, <<"/","w">>>>,
     <<F_env, <<"A","=","1">>>>,
     <<F_env, <<"A","=","2","=">>>>,
     <<F_env, <<"B">>>>,
     <<F_env, <<"T","=",SQ,DQ,BS>>>>,
     <<F_env, V_HISTFILE \o <<"=","h">>>>,
     <<F_env, V_SHELL \o <<"=","/","s">>>>,
     <<F_ssh, <<"h">>>>,
     <<F_ssh, <<"-","p">>>>,
     <<F_cmd, <<"e",SP,SQ,"a",SP,"b",SQ>>>>,
     <<F_cmd, <<>>>>,
     <<F_argv, <<"e">>>>,
     <<F_argv, <<SQ,DQ,BS,SP>>>>,
     <<F_history, <<"u">>>>,
     <<F_history, <<SQ,"s">>>>,
     <<F_history, <<DQ,BS,NL,SP,SQ>>>>}

(* the strings of a sequence of <<option string, argument>> pairs *)
Flatten(f) == [i \in 1..(2 * Len(f)) |-> f[(i + 1) \div 2][2 - (i % 2)]]

(* every command line of at most MaxArgs options *)
ShortLines == UNION {{Flatten(f) : f \in [1..n -> Options]} : n \in 0..MaxArgs}

(* some longer command lines, among them the ones the documentation shows *)
ExampleLines ==
    {Flatten(<< <<F_ssh, <<"h">>>>, <<F_ssh, <<"-","p">>>>, <<F_ssh, <<"2","2">>>>,
                <<F_cmd, <<"e",SP,SQ,"a",SP,"b",SQ>>>> >>),
     Flatten(<< <<F_ssh, <<"-","4">>>>, <<F_ssh, <<"-","o",SP,"P">>>>, <<F_ssh, <<"h">>>>,
                <<F_argv, <<"e">>>> >>),
     Flatten(<< <<F_env, <<"A","=","1">>>>, <<F_env, <<"A","=","2","=">>>>,
                <<F_env, <<"B">>>>, <<F_argv, <<"e">>>> >>),
     Flatten(<< <<F_cwd, <<"/","w">>>>, <<F_env, <<"T","=",SQ,DQ,BS>>>>,
                <<F_argv, <<"e">>>>, <<F_argv, <<SQ,DQ,BS,SP>>>> >>),
     Flatten(<< <<F_cmd, <<"e">>>>, <<F_argv, <<"e">>>>, <<F_ssh, <<"h">>>> >>),
     Flatten(<< <<F_cwd, <<"/","w">>>>, <<F_env, V_SHELL \o <<"=","/","s">>>>,
                <<F_history, <<"u">>>>, <<F_history, <<DQ,BS,NL,SP,SQ>>>> >>),
     Flatten(<< <<F_ssh, <<"h">>>>, <<F_env, <<"T","=",SQ,DQ,BS>>>>,
                <<F_history, <<SQ,"s">>>>, <<F_history, <<DQ,BS,NL,SP,SQ>>>> >>),
     Flatten(<< <<F_ssh, <<"h">>>>, <<F_env, <<"A","=","1">>>>,
                <<F_env, V_HISTFILE \o <<"=","h">>>> >>)}

CmdLines == ShortLines \cup ExampleLines

(* the environments the interpreter may find itself in *)
Ambients ==
    {(<<"A">> :> <<"0">>) @@ (<<"T">> :> <<"x">>) @@ (V_HISTFILE :> <<"o">>),
     (<<"A">> :> <<"0">>) @@ (V_SHELL :> <<"/","z">>)}

(* the interpreter's own working directory *)
AmbientCwd == <<".">>

(* where TemporaryDirectory() / "history" lies *)
HistPath == <<"/","t","/","h">>

(* payload return codes: exit statuses, and -N for death by signal N *)
ReturnCodes == {0, 1, 2, 127, 255, -15}

MaxSignal == 31
AllReturnCodes == (0..255) \cup {-s : s \in 1..MaxSignal}

(***************************************************************************)
(* Helpers of the actions.                                                 *)
(***************************************************************************)
(* d[k] on a dict held as a sequence of pairs *)
Lookup(d, k) == d[CHOOSE i \in DOMAIN d : d[i][1] = k][2]

(* dict(base, **d): base with the pairs of d on top *)
(* d alone, in place of base *)
MergeReplacing(base, d) == [n \in Keys(d) |-> Lookup(d, n)]
(* dict(base, **d) *)
Merge(base, d) ==
    [n \in DOMAIN base \cup Keys(d) |-> IF n \in Keys(d) THEN Lookup(d, n) ELSE base[n]]

(* the status a process ends with on sys.exit(rc): the low eight bits *)
(* a status that only tells success from failure *)
ExitCodeTruthy(rc) == IF rc = 0 THEN 0 ELSE 1
(* sys.exit(rc) *)
ExitCode(rc) == rc % 256

(* the status of an interpreter ended by an uncaught exception *)
PyErrorStatus == 1

(* the status a shell gives for a command it cannot find *)
ShNotFound == 127

(* the status a shell gives for a command line it cannot parse *)
ShSyntaxError == 2

(* the status ssh itself ends with when the connection fails *)
SshError == 255

(* parser.error's exit status *)
UsageStatus == 2

(* run_script: the command for subprocess.run *)
run_script_command(ns, text) ==
    IF ns.ssh # None /\ ns.ssh[1] # <<>>
    THEN <<V_ssh>> \o ns.ssh[1] \o <<V_python, V_c, ShlexQuote(text)>>
    ELSE <<V_python, V_c, text>>

(* the command line ssh sends to the remote shell: the words after the
   connection arguments, joined by spaces *)
RemoteLine(cmd) == Join(<<SP>>, SubSeq(cmd, Len(cmd) - 2, Len(cmd)))

(* what is left of the temporary directory when the with block is left,
   by sys.exit's SystemExit or by any other exception *)
(* cleanup only at the end of the block, skipped by an exception *)
WithExitLeaks(raised) == IF raised THEN "exists" ELSE "removed"
(* TemporaryDirectory.__exit__ *)
WithExit(raised) == "removed"

(***************************************************************************)
(* The calling process.                                                    *)
(***************************************************************************)
(* parser.parse_args() of main_run / main_shell *)
ParseArgs ==
    /\ pc = "main"
    /\ LET ns == parse_args(entry, cmdline) IN
       IF ns.ok
       THEN /\ args' = ns
            /\ pc' = "parsed"
            /\ UNCHANGED <<failure, exitStatus>>
       ELSE /\ pc' = "exited"
            /\ failure' = "usage"
            /\ exitStatus' = {UsageStatus}
            /\ UNCHANGED args
    /\ UNCHANGED <<entry, cmdline, rcs, conf, script, command, interpVars>>

(* the script generator called with the parsed values, and run_script up to
   its call of subprocess.run *)
RunScript ==
    /\ pc = "parsed"
    /\ LET env == dict(args.env)
           text == IF entry = "run"
                   THEN make_run_command(args.argv[1], args.cwd, env)
                   ELSE make_shell_command(args.cwd, env, args.history)
       IN  /\ conf' = [payload |-> IF entry = "run" THEN args.argv[1] ELSE args.history,
                       cwd |-> args.cwd, env |-> env]
           /\ script' = text
           /\ command' = run_script_command(args, text)
    /\ pc' = "spawn"
    /\ UNCHANGED <<entry, cmdline, rcs, args, failure, exitStatus, interpVars>>

(* subprocess.run(command) starting its child: the local interpreter, or ssh
   and through it the remote shell and the remote interpreter *)
Launch ==
    /\ pc = "spawn"
    /\ \/ (* python or ssh cannot be started: FileNotFoundError, uncaught *)
          /\ pc' = "exited"
          /\ failure' = "launch"
          /\ exitStatus' = {PyErrorStatus}
          /\ UNCHANGED interpVars
       \/ (* the local interpreter starts *)
          /\ command[1] = V_python
          /\ \E a \in Ambients : ambient' = a
          /\ ip' = "start"
          /\ itext' = command[3]
          /\ pc' = "wait"
          /\ UNCHANGED <<failure, exitStatus, remote, prog, tmpdir, histfile, ienv,
                         child, nchildren, childRc, ierr, istatus>>
       \/ (* ssh starts and cannot connect *)
          /\ command[1] = V_ssh
          /\ istatus' = {SshError}
          /\ failure' = "transport"
          /\ pc' = "wait"
          /\ UNCHANGED <<exitStatus, remote, ip, ambient, itext, prog, tmpdir, histfile,
                         ienv, child, nchildren, childRc, ierr>>
       \/ (* ssh connects: the remote shell splits the command line and runs it *)
          /\ command[1] = V_ssh
          /\ LET r == ShellSplit(RemoteLine(command)) IN
             /\ remote' = Some(r)
             /\ pc' = "wait"
             /\ IF ~r.ok \/ r.words = <<>>
                THEN /\ istatus' = {ShSyntaxError}
                     /\ UNCHANGED <<failure, ip, ambient, itext>>
                ELSE \/ (* no such program on the remote host *)
                        /\ istatus' = {ShNotFound}
                        /\ failure' = "launch"
                        /\ UNCHANGED <<ip, ambient, itext>>
                     \/ (* the remote interpreter starts *)
                        /\ r.words[1] = V_python
                        /\ Len(r.words) >= 3
                        /\ r.words[2] = V_c
                        /\ \E a \in Ambients : ambient' = a
                        /\ ip' = "start"
                        /\ itext' = r.words[3]
                        /\ UNCHANGED <<failure, istatus>>
          /\ UNCHANGED <<exitStatus, prog, tmpdir, histfile, ienv, child, nchildren,
                         childRc, ierr>>
    /\ UNCHANGED <<entry, cmdline, rcs, args, conf, script, command>>

(* sys.exit(subprocess.run(command).returncode) *)
Finish ==
    /\ pc = "wait"
    /\ istatus # {}
    /\ exitStatus' = {ExitCode(rc) : rc \in istatus}
    /\ pc' = "exited"
    /\ UNCHANGED <<entry, cmdline, rcs, args, conf, script, command, failure, interpVars>>

(***************************************************************************)
(* The interpreter running the script.                                     *)
(***************************************************************************)
(* an exception ends the script: the interpreter prints the traceback and
   exits; a with block that was entered is left on the way *)
(* the same with the exception caught and a status of 0 *)
RaiseSwallowed(err, entered) ==
    /\ ierr' = err
    /\ istatus' = {0}
    /\ ip' = "exited"
    /\ tmpdir' = IF entered THEN WithExit(TRUE) ELSE tmpdir
(* the uncaught exception *)
Raise(err, entered) ==
    /\ ierr' = err
    /\ istatus' = {PyErrorStatus}
    /\ ip' = "exited"
    /\ tmpdir' = IF entered THEN WithExit(TRUE) ELSE tmpdir

(* python -c text: the text is compiled *)
Compile ==
    /\ ip = "start"
    /\ prog' = ReadScript(itext)
    /\ IF prog'.kind = "error"
       THEN Raise("SyntaxError", FALSE)
       ELSE ip' = "ready" /\ UNCHANGED <<ierr, istatus, tmpdir>>
    /\ UNCHANGED <<callerVars, remote, ambient, itext, histfile, ienv, child, nchildren,
                   childRc>>

(* the run script: subprocess.run(command, cwd=cwd, env=dict(os.environ, **env))
   starting the payload *)
StartPayload ==
    /\ ip = "ready"
    /\ prog.kind = "run"
    /\ \/ (* the payload cannot be started: args[0] of an empty argv is an
             IndexError, a file that is missing or cannot be run an OSError *)
          /\ Raise(IF prog.command = <<>> THEN "IndexError" ELSE "OSError", FALSE)
          /\ failure' = "launch"
          /\ UNCHANGED <<child, nchildren>>
       \/ /\ prog.command # <<>>
          /\ child' = Some([argv |-> prog.command,
                            cwd |-> IF prog.cwd = None THEN AmbientCwd ELSE prog.cwd[1],
                            env |-> Merge(ambient, prog.env)])
          /\ nchildren' = nchildren + 1
          /\ ip' = "child"
          /\ UNCHANGED <<failure, ierr, istatus, tmpdir>>
    /\ UNCHANGED <<entry, cmdline, rcs, pc, args, conf, script, command, exitStatus,
                   remote, ambient, itext, prog, histfile, ienv, childRc>>

(* the shell script: the with block is entered and the history file written *)
WriteHistory ==
    /\ ip = "ready"
    /\ prog.kind = "shell"
    /\ \/ (* write_text fails *)
          /\ Raise("OSError", TRUE)
          /\ UNCHANGED histfile
       \/ /\ tmpdir' = "exists"
          /\ histfile' = Some(prog.text)
          /\ ip' = "written"
          /\ UNCHANGED <<ierr, istatus>>
    /\ UNCHANGED <<callerVars, remote, ambient, itext, prog, ienv, child, nchildren,
                   childRc>>

(* env = dict(os.environ, HISTFILE=h, **{...}): a keyword given twice is a
   TypeError *)
BuildEnv ==
    /\ ip = "written"
    /\ IF V_HISTFILE \in Keys(prog.env)
       THEN Raise("TypeError", TRUE) /\ UNCHANGED ienv
       ELSE /\ ienv' = Some(Merge((V_HISTFILE :> HistPath) @@ ambient, prog.env))
            /\ ip' = "env"
            /\ UNCHANGED <<ierr, istatus, tmpdir>>
    /\ UNCHANGED <<callerVars, remote, ambient, itext, prog, histfile, child, nchildren,
                   childRc>>

(* subprocess.run(env.get("SHELL", "bash"), env=env, cwd=cwd) starting the
   shell *)
StartShell ==
    /\ ip = "env"
    /\ \/ (* the shell cannot be started *)
          /\ Raise("OSError", TRUE)
          /\ failure' = "launch"
          /\ UNCHANGED <<child, nchildren>>
       \/ /\ child' = Some([argv |-> <<IF V_SHELL \in DOMAIN ienv[1]
                                      THEN ienv[1][V_SHELL] ELSE V_bash>>,
                            cwd |-> IF prog.cwd = None THEN AmbientCwd ELSE prog.cwd[1],
                            env |-> ienv[1]])
          /\ nchildren' = nchildren + 1
          /\ ip' = "child"
          /\ UNCHANGED <<failure, ierr, istatus, tmpdir>>
    /\ UNCHANGED <<entry, cmdline, rcs, pc, args, conf, script, command, exitStatus,
                   remote, ambient, itext, prog, histfile, ienv, childRc>>

(* the payload ends and subprocess.run returns *)
ChildExit ==
    /\ ip = "child"
    /\ \E rc \in rcs : childRc' = {rc}
    /\ ip' = "reaped"
    /\ UNCHANGED <<callerVars, remote, ambient, itext, prog, tmpdir, histfile, ienv,
                   child, nchildren, ierr, istatus>>

(* sys.exit(returncode): SystemExit leaves the with block, the process ends *)
ScriptExit ==
    /\ ip = "reaped"
    /\ istatus' = {ExitCode(rc) : rc \in childRc}
    /\ tmpdir' = IF prog.kind = "shell" THEN WithExit(FALSE) ELSE tmpdir
    /\ ip' = "exited"
    /\ UNCHANGED <<callerVars, remote, ambient, itext, prog, histfile, ienv, child,
                   nchildren, childRc, ierr>>

(***************************************************************************)
(* The specification.                                                      *)
(***************************************************************************)
InitWith(lines, codes) ==
    /\ entry \in {"run", "shell"}
    /\ cmdline \in lines
    /\ rcs = codes
    /\ pc = "main"
    /\ args = EmptyNamespace
    /\ conf = [payload |-> <<>>, cwd |-> None, env |-> <<>>]
    /\ script = <<>>
    /\ command = <<>>
    /\ failure = "none"
    /\ exitStatus = {}
    /\ remote = None
    /\ ip = "none"
    /\ ambient = [n \in {} |-> <<>>]
    /\ itext = <<>>
    /\ prog = ScriptError
    /\ tmpdir = "absent"
    /\ histfile = None
    /\ ienv = None
    /\ child = None
    /\ nchildren = 0
    /\ childRc = {}
    /\ ierr = "none"
    /\ istatus = {}

Init == InitWith(CmdLines, ReturnCodes)

Next ==
    \/ ParseArgs
    \/ RunScript
    \/ Launch
    \/ Finish
    \/ Compile
    \/ StartPayload
    \/ WriteHistory
    \/ BuildEnv
    \/ StartShell
    \/ ChildExit
    \/ ScriptExit

Spec == Init /\ [][Next]_vars

(* the example command lines, with every return code the payload can have *)
InitCodes == InitWith(ExampleLines, AllReturnCodes)

SpecCodes == InitCodes /\ [][Next]_vars

(***************************************************************************)
(* Reading the command line for the properties below: the positions of an  *)
(* option string and the arguments given to it, in order.                  *)
(***************************************************************************)
Occurrences(flag) == {i \in DOMAIN cmdline : i % 2 = 1 /\ cmdline[i] = flag}

Pairs == [k \in 1..(Len(cmdline) \div 2) |-> <<cmdline[2 * k - 1], cmdline[2 * k]>>]

IsSshPair(p) == p[1] = F_ssh
NotSshPair(p) == p[1] # F_ssh

SshPairs == SelectSeq(Pairs, IsSshPair)
SshArguments == [k \in DOMAIN SshPairs |-> SshPairs[k][2]]
LineWithoutSsh == Flatten(SelectSeq(Pairs, NotSshPair))

(* NAME=VALUE split at the first "=", the value empty without one *)
EqualsAt(w) ==
    IF "=" \in Chars(w)
    THEN CHOOSE i \in DOMAIN w : w[i] = "=" /\ \A j \in 1..(i - 1) : w[j] # "="
    ELSE Len(w) + 1
NameOf(w) == SubSeq(w, 1, EqualsAt(w) - 1)
ValueOf(w) == SubSeq(w, EqualsAt(w) + 1, Len(w))

Generated == pc \in {"spawn", "wait", "exited"} /\ failure # "usage"

(* what the child's environment has to be: base with the dict d on top *)
IsOnTop(e, base, d) ==
    /\ DOMAIN e = DOMAIN base \cup Keys(d)
    /\ \A n \in DOMAIN base \ Keys(d) : e[n] = base[n]
    /\ \A i \in DOMAIN d : e[d[i][1]] = d[i][2]

(***************************************************************************)
(* C1: whenever the payload ended with an exit code c in 0..255, the       *)
(* calling process exits with exactly c, run locally or through ssh.       *)
(***************************************************************************)
C1_ExitCodePropagates ==
    (pc = "exited" /\ childRc # {}) =>
        \A c \in childRc : c \in 0..255 => exitStatus = {c}

C1_Witness ==
    /\ pc = "exited"
    /\ command # <<>> /\ command[1] = V_ssh
    /\ childRc = {127}
    /\ exitStatus = {127}

C3_SshArgumentsPassedInOrder ==
    (pc # "main" /\ parse_args(entry, LineWithoutSsh).ok) =>
        /\ failure # "usage"
        /\ Generated =>
             command = IF SshArguments = <<>>
                       THEN <<V_python, V_c, script>>
                       ELSE <<V_ssh>> \o SshArguments
                                \o <<V_python, V_c, ShlexQuote(script)>>

(***************************************************************************)
(* C4: main_run given both --cmd and --argv, or neither, ends in a usage   *)
(* error with a non-zero exit status and nothing was started: no command   *)
(* was built, no interpreter and no child ever ran.                        *)
(***************************************************************************)
BothGiven == Occurrences(F_cmd) # {} /\ Occurrences(F_argv) # {}
NeitherGiven == Occurrences(F_cmd) = {} /\ Occurrences(F_argv) = {}

C4_UsageErrorStartsNothing ==
    (entry = "run" /\ pc # "main" /\ (BothGiven \/ NeitherGiven)) =>
        /\ pc = "exited"
        /\ failure = "usage"
        /\ exitStatus # {} /\ 0 \notin exitStatus
        /\ command = <<>>
        /\ ip = "none" /\ istatus = {}
        /\ nchildren = 0

C4_Witness ==
    /\ entry = "run"
    /\ pc = "exited"
    /\ BothGiven
    /\ \A i \in DOMAIN cmdline : i % 2 = 1 => cmdline[i] \in {F_cmd, F_argv}

(***************************************************************************)
(* C5, as claimed: a failure to start the child gives an exit status that  *)
(* is non-zero and that no run in which the child ran and returned         *)
(* non-zero gives.                                                         *)
(***************************************************************************)
C5_LaunchFailureDistinct ==
    (pc = "exited" /\ failure = "launch") =>
        /\ exitStatus # {}
        /\ \A s \in exitStatus :
             s # 0 /\ s \notin {ExitCode(rc) : rc \in rcs \ {0}}

(***************************************************************************)
(* C5, amended: a failure to start the child gives a non-zero exit status: *)
(* 1 from the uncaught exception, 127 from the remote shell.  (A child     *)
(* that ran can return the same.)                                          *)
(***************************************************************************)
C5_LaunchFailureNonZero ==
    (pc = "exited" /\ failure = "launch") =>
        exitStatus # {} /\ exitStatus \subseteq {1, 127}

C5_Witness ==
    /\ pc = "exited"
    /\ failure = "launch"
    /\ ip = "exited"
    /\ ierr \in {"IndexError", "OSError"}
    /\ nchildren = 0

(***************************************************************************)
(* C6: the remote shell's word splitting of the command line ssh sends     *)
(* gives exactly python, -c and the script as it was generated.            *)
(***************************************************************************)
C6_RemoteWordsIntact ==
    remote # None =>
        remote[1].ok /\ remote[1].words = <<V_python, V_c, script>>

C6_Witness ==
    /\ remote # None
    /\ entry = "shell"
    /\ \E i \in DOMAIN conf.payload : {SQ, DQ, BS, SP, NL} \subseteq Chars(conf.payload[i])
    /\ \E i \in DOMAIN conf.env : {SQ, DQ, BS} \subseteq Chars(conf.env[i][2])

(***************************************************************************)
(* C7: the env handed to the script generator has exactly the names given  *)
(* with --env, each with the value of its last occurrence; name and value  *)
(* are split at the first "=", the value empty without one.                *)
(***************************************************************************)
IsLastOf(i) ==
    \A j \in Occurrences(F_env) : j > i => NameOf(cmdline[j + 1]) # NameOf(cmdline[i + 1])

C7_LastEnvWins ==
    Generated =>
        /\ Keys(conf.env) = {NameOf(cmdline[i + 1]) : i \in Occurrences(F_env)}
        /\ \A i \in Occurrences(F_env) :
             IsLastOf(i) =>
                \E k \in DOMAIN conf.env :
                    conf.env[k] = <<NameOf(cmdline[i + 1]), ValueOf(cmdline[i + 1])>>
        /\ \A k, l \in DOMAIN conf.env : conf.env[k][1] = conf.env[l][1] => k = l

C7_Witness ==
    /\ Generated
    /\ entry = "run"
    /\ \E i, j \in Occurrences(F_env) :
          /\ i < j
          /\ NameOf(cmdline[i + 1]) = NameOf(cmdline[j + 1])
          /\ ValueOf(cmdline[i + 1]) # ValueOf(cmdline[j + 1])
          /\ "=" \in Chars(ValueOf(cmdline[j + 1]))
    /\ \E i \in Occurrences(F_env) : "=" \notin Chars(cmdline[i + 1])

(***************************************************************************)
(* C8: the history file holds each history line followed by one newline,   *)
(* in order, and nothing else: nothing at all when there are no lines.     *)
(***************************************************************************)
C8_HistoryFileIsTheLines ==
    histfile # None =>
        histfile[1] = Concat([i \in DOMAIN conf.payload |-> conf.payload[i] \o <<NL>>])

(***************************************************************************)
(* C9: whatever env names, HISTFILE and SHELL included, a shell script     *)
(* that was not stopped by the file system or a missing shell has started  *)
(* the shell: the SHELL of the merged environment or bash, with HISTFILE   *)
(* the history file and every other variable the interpreter's environment *)
(* with env on top.                                                        *)
(***************************************************************************)
C9_ShellStartedWithHistfile ==
    (entry = "shell" /\ ip = "exited" /\ ierr \notin {"OSError", "SyntaxError"}) =>
        /\ child # None
        /\ child[1].env[V_HISTFILE] = HistPath
        /\ \A n \in (DOMAIN ambient \cup Keys(conf.env)) \ {V_HISTFILE} :
             /\ n \in DOMAIN child[1].env
             /\ child[1].env[n] = IF n \in Keys(conf.env) THEN Lookup(conf.env, n)
                                  ELSE ambient[n]
        /\ child[1].argv = <<IF V_SHELL \in Keys(conf.env) THEN Lookup(conf.env, V_SHELL)
                             ELSE IF V_SHELL \in DOMAIN ambient THEN ambient[V_SHELL]
                             ELSE V_bash>>

(***************************************************************************)
(* C10: the temporary directory exists from the writing of the history     *)
(* file until the shell has ended, and it is gone once the script's        *)
(* process has exited, by sys.exit or by an exception.                     *)
(***************************************************************************)
C10_TempDirScoped ==
    /\ (prog.kind = "shell" /\ ip \in {"written", "env", "child", "reaped"}) =>
          tmpdir = "exists"
    /\ ip = "exited" => tmpdir # "exists"
    /\ pc = "exited" => tmpdir # "exists"

C10_Witness ==
    /\ ip = "exited"
    /\ ienv # None
    /\ ierr = "OSError"
    /\ tmpdir = "removed"
=============================================================================
